---- MODULE Spec2Model ----
(***************************************************************************)
(* Model of the similarity-search indexes of src/src/DataStructures.cpp:   *)
(* DocumentList (linear scan), KdTree (k-d tree with pruned search) and    *)
(* DocumentHash (random-projection LSH), driven as src/src/main.cpp drives *)
(* them: the same documents are inserted into one instance of each index   *)
(* and the same query is run against each.                                 *)
(*                                                                         *)
(* Numbers.  Feature values are small integers.  A distance (the float     *)
(* sqrt(sum) of euclideanDistance) is represented by the sum under the     *)
(* root: sqrt is strictly increasing on the non-negative reals, so every   *)
(* comparison dist < bestDist of the code is the comparison of the sums,   *)
(* and the pruning test abs(diff) < bestDist is diff*diff < sum.           *)
(*                                                                         *)
(* Pointers.  A KdNode* is an index into the arena `nodes` (0 is nullptr). *)
(* A const Document* returned by a search is modelled by the sequence of   *)
(* the documents it designates: <<>> for nullptr, <<d>> for a pointer to d.*)
(***************************************************************************)
EXTENDS Integers, Sequences, FiniteSets, Bags, TLC

\* ---------------------------------------------------------------- bounds
\* At most MaxDocs documents are inserted.
MaxDocs == 3
\* The first feature of a vector ranges over 0..MaxCoord.
MaxCoord == 1
\* The k of a top-K search ranges over 0..MaxK.
MaxK == 3

\* cfloat's FLT_MAX, the initial bestDist of every scan: in the model's
\* representation of distances, a value above every sum the bounded vectors give.
FLT_MAX == 1000000

\* The constructor arguments the model builds its indexes with (the driver's are
\* 24 dimensions, 16 hash functions and a bucket width of 0.5).
DimensionChoices == {2}
\* Projection bases the constructor's normal_distribution may draw, one vector of
\* `dimensions` values per hash function.
ProjectionChoices == { << <<1, 1>> >>, << <<1, -1>>, <<1, 1>> >> }
BucketWidthChoices == {2}

\* The values of the features after the first.
OtherCoords == {0, 1}
\* Well-formed feature vectors: `dimensions` values each.
FeatureVectors(dims) ==
    {f \in [1..dims -> 0..MaxCoord \cup OtherCoords] :
        f[1] \in 0..MaxCoord /\ \A i \in 2..dims : f[i] \in OtherCoords}
\* Vectors whose length differs from the index's dimensionality.
MismatchedVectors == { <<0>>, <<1, 0, 1>> }
\* What a read past the end of a vector may yield.
GarbageValues == {0, MaxCoord + 3}

\* ------------------------------------------------------------- ImageUtils
\* struct Document: id and features (the filename is an opaque label).
Document(id_, f) == [id |-> id_, features |-> f]

\* v[i] of a std::vector<float> (0-based); past the end the read is undefined
\* behaviour and yields g.
At(v, i, g) == IF i < Len(v) THEN v[i + 1] ELSE g

\* A plausible bug: the differences are summed without being squared.
RECURSIVE SumSqUnsquared(_, _, _, _)
SumSqUnsquared(a, b, i, g) ==
    IF i >= Len(a) THEN 0
    ELSE (a[i + 1] - At(b, i, g)) + SumSqUnsquared(a, b, i + 1, g)

\* The loop of euclideanDistance: the sum of the squared differences from i on.
RECURSIVE SumSq(_, _, _, _)
SumSq(a, b, i, g) ==
    IF i >= Len(a) THEN 0
    ELSE LET diff == a[i + 1] - At(b, i, g)
         IN  diff * diff + SumSq(a, b, i + 1, g)

\* A plausible bug: the loop stops one element early.
euclideanDistanceShort(a, b, g) ==
    IF Len(a) = 0 THEN 0 ELSE SumSq(SubSeq(a, 1, Len(a) - 1), b, 0, g)

\* float euclideanDistance(a, b): the loop runs over a.size() and reads b[i].
euclideanDistance(a, b, g) == SumSq(a, b, 0, g)

\* ------------------------------------------------------------ DocumentList
\* A plausible bug: the new document replaces the last one.
DocumentList_insertOverwrite(docs_, d) ==
    IF Len(docs_) = 0 THEN <<d>> ELSE [docs_ EXCEPT ![Len(docs_)] = d]

\* DocumentList::insert: docs.push_back(d).
DocumentList_insert(docs_, d) == Append(docs_, d)

\* The scan of DocumentList::searchSimilar and DocumentHash::searchSimilar:
\* the state (best, bestDist) after the documents ds[i..].
RECURSIVE ScanBest(_, _, _, _, _, _)
ScanBest(ds, q, i, best, bestDist, g) ==
    IF i > Len(ds) THEN best
    ELSE LET dist == euclideanDistance(q, ds[i].features, g)
         IN  IF dist < bestDist
             THEN ScanBest(ds, q, i + 1, <<ds[i]>>, dist, g)
             ELSE ScanBest(ds, q, i + 1, best, bestDist, g)

\* A plausible bug: the scan misses the last document.
DocumentList_searchSimilarSkipLast(docs_, q, g) ==
    IF Len(docs_) = 0 THEN <<>>
    ELSE ScanBest(SubSeq(docs_, 1, Len(docs_) - 1), q, 1, <<>>, FLT_MAX, g)

\* DocumentList::searchSimilar.
DocumentList_searchSimilar(docs_, q, g) ==
    IF Len(docs_) = 0 THEN <<>>
    ELSE ScanBest(docs_, q, 1, <<>>, FLT_MAX, g)

\* ------------------------------------------------------------------ KdTree
\* struct KdNode: the document and the two child pointers (0 is nullptr).
KdNode(d) == [doc |-> d, left |-> 0, right |-> 0]

\* A KdTree object: the root pointer, k, and the heap of nodes it owns.
\* A reference KdNode*& is the place of a pointer: the root (parent 0) or a
\* child field of a node.
RootRef == [parent |-> 0, side |-> "root"]
ChildRef(n, s) == [parent |-> n, side |-> s]

Deref(T, ref) ==
    IF ref.parent = 0 THEN T.root
    ELSE IF ref.side = "left" THEN T.nodes[ref.parent].left
    ELSE T.nodes[ref.parent].right

Assign(T, ref, n) ==
    IF ref.parent = 0 THEN [T EXCEPT !.root = n]
    ELSE IF ref.side = "left" THEN [T EXCEPT !.nodes[ref.parent].left = n]
    ELSE [T EXCEPT !.nodes[ref.parent].right = n]

\* A plausible bug: the comparison of the descent is turned around.
GoesLeftFlipped(d, nodeDoc, axis) ==
    d.features[axis + 1] > nodeDoc.features[axis + 1]

\* A plausible bug: a document equal on the axis goes left too.
GoesLeftOrEqual(d, nodeDoc, axis) ==
    d.features[axis + 1] <= nodeDoc.features[axis + 1]

\* The descent test of insertRec: strictly less goes left, else right.
GoesLeft(d, nodeDoc, axis) ==
    d.features[axis + 1] < nodeDoc.features[axis + 1]

\* A plausible bug: the slot is taken by value (KdNode* node), so the node is
\* allocated and never linked.
NewNodeByValue(T, ref, d) == [T EXCEPT !.nodes = Append(@, KdNode(d))]

\* node = new KdNode(d): a fresh node is allocated and the null slot set to it.
NewNode(T, ref, d) ==
    Assign([T EXCEPT !.nodes = Append(@, KdNode(d))], ref, Len(T.nodes) + 1)

\* KdTree::insertRec(KdNode*& node, Document d, int depth).
RECURSIVE KdTree_insertRec(_, _, _, _)
KdTree_insertRec(T, ref, d, depth) ==
    LET node == Deref(T, ref)
    IN  IF node = 0 THEN NewNode(T, ref, d)
        ELSE LET axis == depth % T.k
             IN  IF GoesLeft(d, T.nodes[node].doc, axis)
                 THEN KdTree_insertRec(T, ChildRef(node, "left"), d, depth + 1)
                 ELSE KdTree_insertRec(T, ChildRef(node, "right"), d, depth + 1)

\* KdTree::insert.
KdTree_insert(T, d) == KdTree_insertRec(T, RootRef, d, 0)

\* A plausible bug: the far subtree is never searched.
MayHoldCloserNever(diff, bestDist) == FALSE

\* The pruning test of searchSimilarRec: std::abs(diff) < bestDist.
MayHoldCloser(diff, bestDist) == diff * diff < bestDist

\* KdTree::searchSimilarRec: the state (best, bestDist) after the subtree at node.
RECURSIVE KdTree_searchSimilarRec(_, _, _, _, _, _, _)
KdTree_searchSimilarRec(T, node, q, best, bestDist, depth, g) ==
    IF node = 0 THEN [best |-> best, bestDist |-> bestDist]
    ELSE LET nd   == T.nodes[node]
             dist == euclideanDistance(q, nd.doc.features, g)
             s1   == IF dist < bestDist
                     THEN [best |-> <<nd.doc>>, bestDist |-> dist]
                     ELSE [best |-> best, bestDist |-> bestDist]
             axis == depth % T.k
             diff == At(q, axis, g) - At(nd.doc.features, axis, g)
             nearChild == IF diff < 0 THEN nd.left ELSE nd.right
             farChild  == IF diff < 0 THEN nd.right ELSE nd.left
             s2   == KdTree_searchSimilarRec(T, nearChild, q, s1.best, s1.bestDist,
                                             depth + 1, g)
         IN  IF MayHoldCloser(diff, s2.bestDist)
             THEN KdTree_searchSimilarRec(T, farChild, q, s2.best, s2.bestDist,
                                          depth + 1, g)
             ELSE s2

\* KdTree::searchSimilar.
KdTree_searchSimilar(T, q, g) ==
    IF T.root = 0 THEN <<>>
    ELSE KdTree_searchSimilarRec(T, T.root, q, <<>>, FLT_MAX, 0, g).best

\* The steps of KdTree::searchSimilarRec in the order it takes them: a "visit"
\* for every node whose distance is computed, a "skip" for every far child the
\* pruning test leaves out, with diff and the bestDist the test compared.
RECURSIVE KdTree_searchSteps(_, _, _, _, _, _, _)
KdTree_searchSteps(T, node, q, best, bestDist, depth, g) ==
    IF node = 0 THEN <<>>
    ELSE LET nd   == T.nodes[node]
             dist == euclideanDistance(q, nd.doc.features, g)
             s1   == IF dist < bestDist
                     THEN [best |-> <<nd.doc>>, bestDist |-> dist]
                     ELSE [best |-> best, bestDist |-> bestDist]
             axis == depth % T.k
             diff == At(q, axis, g) - At(nd.doc.features, axis, g)
             nearChild == IF diff < 0 THEN nd.left ELSE nd.right
             farChild  == IF diff < 0 THEN nd.right ELSE nd.left
             s2   == KdTree_searchSimilarRec(T, nearChild, q, s1.best, s1.bestDist,
                                             depth + 1, g)
         IN  <<[kind |-> "visit", node |-> node, depth |-> depth]>>
               \o KdTree_searchSteps(T, nearChild, q, s1.best, s1.bestDist, depth + 1, g)
               \o IF MayHoldCloser(diff, s2.bestDist)
                  THEN KdTree_searchSteps(T, farChild, q, s2.best, s2.bestDist,
                                          depth + 1, g)
                  ELSE <<[kind |-> "skip", node |-> farChild, diff |-> diff,
                          bestDist |-> s2.bestDist]>>

\* ------------------------------------------------------------ DocumentHash
\* The dot product of getHashKey: j runs over features.size() and reads
\* projections[i][j].
RECURSIVE DotProduct(_, _, _, _)
DotProduct(features, proj, j, g) ==
    IF j >= Len(features) THEN 0
    ELSE features[j + 1] * At(proj, j, g) + DotProduct(features, proj, j + 1, g)

\* A plausible bug: the quotient is truncated toward zero instead of floored.
BucketIndexTruncating(dotProduct, width) ==
    IF dotProduct >= 0 THEN dotProduct \div width ELSE -((-dotProduct) \div width)

\* static_cast<int>(floor(dotProduct / bucketWidth)): rounds toward minus infinity.
BucketIndex(dotProduct, width) == dotProduct \div width

\* A plausible bug: only the first hash function contributes to the key.
getHashKeyFirstOnly(H, features, g) ==
    [i \in 1..H.numHashes |->
        BucketIndex(DotProduct(features, H.projections[1], 0, g), H.bucketWidth)]

\* DocumentHash::getHashKey.
getHashKey(H, features, g) ==
    [i \in 1..H.numHashes |->
        BucketIndex(DotProduct(features, H.projections[i], 0, g), H.bucketWidth)]

\* A plausible bug: the bucket is overwritten by the new document.
DocumentHash_insertOverwrite(H, d) ==
    LET key == getHashKey(H, d.features, 0)
    IN  IF key \in DOMAIN H.buckets
        THEN [H EXCEPT !.buckets[key] = <<d>>]
        ELSE [H EXCEPT !.buckets = @ @@ (key :> <<d>>)]

\* DocumentHash::insert: buckets[key].push_back(d), the bucket created if absent.
DocumentHash_insert(H, d) ==
    LET key == getHashKey(H, d.features, 0)
    IN  IF key \in DOMAIN H.buckets
        THEN [H EXCEPT !.buckets[key] = Append(@, d)]
        ELSE [H EXCEPT !.buckets = @ @@ (key :> <<d>>)]

\* A plausible bug: the lookup is written buckets[queryKey], which default-inserts.
BucketsAfterLookupCreating(bs, key) ==
    IF key \in DOMAIN bs THEN bs ELSE bs @@ (key :> <<>>)

\* The map after buckets.find(queryKey) and buckets.at(queryKey): both are
\* lookups that leave the map as it is.
BucketsAfterLookup(bs, key) == bs

\* The documents of every bucket.
RECURSIVE AllBuckets(_, _)
AllBuckets(bs, keys) ==
    IF keys = {} THEN <<>>
    ELSE LET key == CHOOSE x \in keys : TRUE
         IN  bs[key] \o AllBuckets(bs, keys \ {key})

\* A plausible bug: every bucket is scanned, not only the query's.
DocumentHash_searchSimilarAnyBucket(H, q, g) ==
    ScanBest(AllBuckets(H.buckets, DOMAIN H.buckets), q, 1, <<>>, FLT_MAX, g)

\* DocumentHash::searchSimilar.
DocumentHash_searchSimilar(H, q, g) ==
    LET queryKey == getHashKey(H, q, g)
    IN  IF queryKey \notin DOMAIN H.buckets \/ Len(H.buckets[queryKey]) = 0
        THEN <<>>
        ELSE ScanBest(H.buckets[queryKey], q, 1, <<>>, FLT_MAX, g)

\* ------------------------------------------------------- top-K searches
\* The driver calls searchSimilar(query, TOP_K) on each index; these overloads
\* are not in DataStructures.cpp and are modelled from the design text.
Min(a, b) == IF a < b THEN a ELSE b

\* The distance of a stored document to a well-formed query.
Dist(q, d) == euclideanDistance(q, d.features, 0)

\* seq, sorted ascending by distance, with d put after the entries as close as it.
RECURSIVE SortedInsert(_, _, _)
SortedInsert(seq, d, q) ==
    IF Len(seq) = 0 THEN <<d>>
    ELSE IF Dist(q, d) < Dist(q, Head(seq)) THEN <<d>> \o seq
    ELSE <<Head(seq)>> \o SortedInsert(Tail(seq), d, q)

\* The first n documents of ds, ranked.
RECURSIVE RankFirst(_, _, _)
RankFirst(ds, n, q) ==
    IF n = 0 THEN <<>> ELSE SortedInsert(RankFirst(ds, n - 1, q), ds[n], q)

RankByDistance(ds, q) == RankFirst(ds, Len(ds), q)

\* Sequential index: the k smallest by distance, nearest first.
DocumentList_searchTopK(docs_, q, kk) ==
    SubSeq(RankByDistance(docs_, q), 1, Min(kk, Len(docs_)))

\* The bounded candidate structure (capacity kk), kept nearest first: its last
\* entry is the farthest kept candidate.
Offer(cand, d, q, kk) ==
    IF Len(cand) < kk THEN SortedInsert(cand, d, q)
    ELSE IF kk > 0 /\ Dist(q, d) < Dist(q, cand[Len(cand)])
         THEN SortedInsert(SubSeq(cand, 1, Len(cand) - 1), d, q)
         ELSE cand

\* The far child is searched while the candidates are not full, or when the
\* axis difference is smaller than the farthest kept distance.
FarWorthSearching(cand, diff, q, kk) ==
    \/ Len(cand) < kk
    \/ kk > 0 /\ diff * diff < Dist(q, cand[Len(cand)])

RECURSIVE KdTree_searchTopKRec(_, _, _, _, _, _)
KdTree_searchTopKRec(T, node, q, cand, depth, kk) ==
    IF node = 0 THEN cand
    ELSE LET nd   == T.nodes[node]
             c1   == Offer(cand, nd.doc, q, kk)
             axis == depth % T.k
             diff == q[axis + 1] - nd.doc.features[axis + 1]
             nearChild == IF diff < 0 THEN nd.left ELSE nd.right
             farChild  == IF diff < 0 THEN nd.right ELSE nd.left
             c2   == KdTree_searchTopKRec(T, nearChild, q, c1, depth + 1, kk)
         IN  IF FarWorthSearching(c2, diff, q, kk)
             THEN KdTree_searchTopKRec(T, farChild, q, c2, depth + 1, kk)
             ELSE c2

\* Spatial tree index: an empty tree gives the empty sequence.
KdTree_searchTopK(T, q, kk) ==
    IF T.root = 0 THEN <<>>
    ELSE KdTree_searchTopKRec(T, T.root, q, <<>>, 0, kk)

\* Hash index: the k nearest of the query's own bucket.
DocumentHash_searchTopK(H, q, kk) ==
    LET queryKey == getHashKey(H, q, 0)
    IN  IF queryKey \notin DOMAIN H.buckets \/ Len(H.buckets[queryKey]) = 0
        THEN <<>>
        ELSE SubSeq(RankByDistance(H.buckets[queryKey], q), 1,
                    Min(kk, Len(H.buckets[queryKey])))

\* ------------------------------------------------------------------ state
VARIABLES
    list,        \* the DocumentList: its vector docs
    tree,        \* the KdTree: [root, k, nodes]
    lsh,         \* the DocumentHash: [buckets, projections, bucketWidth, numHashes]
    id_counter,  \* the driver's id_counter
    inserted,    \* history: the documents the driver has inserted so far
    last         \* the last operation and what it returned

vars == <<list, tree, lsh, id_counter, inserted, last>>

NoOp == [op |-> "none", query |-> <<>>, k |-> 0,
         list |-> <<>>, tree |-> <<>>, hash |-> <<>>]

\* The three indexes as constructed, before any insert.
Init ==
    /\ list = <<>>
    /\ \E dims \in DimensionChoices :
        tree = [root |-> 0, k |-> dims, nodes |-> <<>>]
    /\ \E projs \in ProjectionChoices, width \in BucketWidthChoices :
        lsh = [buckets |-> <<>>, projections |-> projs,
               bucketWidth |-> width, numHashes |-> Len(projs)]
    /\ id_counter = 1
    /\ inserted = <<>>
    /\ last = NoOp

\* An experiment of the driver builds its index and then queries it once.
Queried == last.op \in {"search", "topk"}

\* The driver's load loop and build loops: the next document gets the next id and
\* is inserted into each of the three indexes.
Insert ==
    /\ ~Queried
    /\ Len(inserted) < MaxDocs
    /\ \E f \in FeatureVectors(tree.k) :
        LET d == Document(id_counter, f)
        IN  /\ list' = DocumentList_insert(list, d)
            /\ tree' = KdTree_insert(tree, d)
            /\ lsh' = DocumentHash_insert(lsh, d)
            /\ inserted' = Append(inserted, d)
    /\ id_counter' = id_counter + 1
    /\ last' = [NoOp EXCEPT !.op = "insert"]

\* The queries a search may be given, each with what its reads past the end of
\* a vector yield (no such read happens for a well-formed query).
SearchInputs ==
    (FeatureVectors(tree.k) \X {0}) \cup (MismatchedVectors \X GarbageValues)

\* searchSimilar(query) on each of the three indexes.  The functions have no
\* error path and check no length: each returns its pointer whatever the query.
SearchSimilar ==
    /\ ~Queried
    /\ \E in \in SearchInputs :
        LET q == in[1]
            g == in[2]
        IN  /\ last' = [op |-> "search", query |-> q, k |-> 1,
                        list |-> DocumentList_searchSimilar(list, q, g),
                        tree |-> KdTree_searchSimilar(tree, q, g),
                        hash |-> DocumentHash_searchSimilar(lsh, q, g)]
            /\ lsh' = [lsh EXCEPT
                         !.buckets = BucketsAfterLookup(@, getHashKey(lsh, q, g))]
    /\ UNCHANGED <<list, tree, id_counter, inserted>>

\* searchSimilar(query, TOP_K) on each of the three indexes.
SearchTopK ==
    /\ ~Queried
    /\ \E q \in FeatureVectors(tree.k), kk \in 0..MaxK :
        last' = [op |-> "topk", query |-> q, k |-> kk,
                 list |-> DocumentList_searchTopK(list, q, kk),
                 tree |-> KdTree_searchTopK(tree, q, kk),
                 hash |-> DocumentHash_searchTopK(lsh, q, kk)]
    /\ UNCHANGED <<list, tree, lsh, id_counter, inserted>>

Next == Insert \/ SearchSimilar \/ SearchTopK

Spec == Init /\ [][Next]_vars

\* Experiment 1 of the driver on its own: only the DocumentList is built and
\* queried; no DocumentHash is constructed and the KdTree stays empty.
InitList ==
    /\ list = <<>>
    /\ \E dims \in DimensionChoices :
        tree = [root |-> 0, k |-> dims, nodes |-> <<>>]
    /\ lsh = [buckets |-> <<>>, projections |-> <<>>, bucketWidth |-> 1, numHashes |-> 0]
    /\ id_counter = 1
    /\ inserted = <<>>
    /\ last = NoOp

ListInsert ==
    /\ ~Queried
    /\ Len(inserted) < MaxDocs
    /\ \E f \in FeatureVectors(tree.k) :
        LET d == Document(id_counter, f)
        IN  /\ list' = DocumentList_insert(list, d)
            /\ inserted' = Append(inserted, d)
    /\ id_counter' = id_counter + 1
    /\ last' = [NoOp EXCEPT !.op = "insert"]
    /\ UNCHANGED <<tree, lsh>>

ListSearchSimilar ==
    /\ ~Queried
    /\ \E in \in SearchInputs :
        last' = [NoOp EXCEPT !.op = "search", !.query = in[1], !.k = 1,
                             !.list = DocumentList_searchSimilar(list, in[1], in[2])]
    /\ UNCHANGED <<list, tree, lsh, id_counter, inserted>>

ListSearchTopK ==
    /\ ~Queried
    /\ \E q \in FeatureVectors(tree.k), kk \in 0..MaxK :
        last' = [NoOp EXCEPT !.op = "topk", !.query = q, !.k = kk,
                             !.list = DocumentList_searchTopK(list, q, kk)]
    /\ UNCHANGED <<list, tree, lsh, id_counter, inserted>>

NextList == ListInsert \/ ListSearchSimilar \/ ListSearchTopK

SpecList == InitList /\ [][NextList]_vars

\* ----------------------------------------------------------------- claims
Searched == last.op = "search"
TopKed == last.op = "topk"
\* The query has the dimensionality of the index.
WellFormed(q) == Len(q) = tree.k
Ids(seq) == {seq[i].id : i \in DOMAIN seq}
Range(seq) == {seq[i] : i \in DOMAIN seq}
Dists(seq, q) == [i \in DOMAIN seq |-> Dist(q, seq[i])]
Sorted(seq, q) ==
    \A i \in DOMAIN seq : \A j \in DOMAIN seq : i < j => Dist(q, seq[i]) <= Dist(q, seq[j])
\* A stored document left out of res is as far as the farthest document of res.
BoundaryTie(res, q) ==
    /\ Len(res) > 0
    /\ \E d \in Range(inserted) \ Range(res) : Dist(q, d) = Dist(q, res[Len(res)])
BucketSize(q) ==
    LET key == getHashKey(lsh, q, 0)
    IN  IF key \in DOMAIN lsh.buckets THEN Len(lsh.buckets[key]) ELSE 0

\* The indexes of the design's scenarios, built by the inserts themselves.
RECURSIVE ListOfFirst(_, _)
ListOfFirst(ds, n) ==
    IF n = 0 THEN <<>> ELSE DocumentList_insert(ListOfFirst(ds, n - 1), ds[n])
ListOf(ds) == ListOfFirst(ds, Len(ds))
RECURSIVE TreeOfFirst(_, _, _)
TreeOfFirst(ds, n, dims) ==
    IF n = 0 THEN [root |-> 0, k |-> dims, nodes |-> <<>>]
    ELSE KdTree_insert(TreeOfFirst(ds, n - 1, dims), ds[n])
TreeOf(ds, dims) == TreeOfFirst(ds, Len(ds), dims)
RECURSIVE HashOfFirst(_, _, _, _)
HashOfFirst(ds, n, projs, width) ==
    IF n = 0
    THEN [buckets |-> <<>>, projections |-> projs, bucketWidth |-> width,
          numHashes |-> Len(projs)]
    ELSE DocumentHash_insert(HashOfFirst(ds, n - 1, projs, width), ds[n])
HashOf(ds, projs, width) == HashOfFirst(ds, Len(ds), projs, width)

\* C1 as stated, of the searchSimilar of DataStructures.cpp (k = 1 <= N): the
\* sequential and the tree search return the same set of document ids.
C1_SameIdSets ==
    (Searched /\ WellFormed(last.query) /\ 1 <= last.k /\ last.k <= Len(inserted))
        => Ids(last.list) = Ids(last.tree)

\* C1 amended: for a query and 1 <= k <= N, the sequential and the tree search
\* return the same distances, nearest first, and the same set of ids whenever no
\* stored document left out of the sequential result is as far from the query
\* as the farthest document of that result.
C1_SameDistances ==
    (Queried /\ WellFormed(last.query) /\ 1 <= last.k /\ last.k <= Len(inserted))
        => /\ Dists(last.list, last.query) = Dists(last.tree, last.query)
           /\ ~BoundaryTie(last.list, last.query) => Ids(last.list) = Ids(last.tree)

\* C1 witness: a search of three documents, free of ties, that both indexes
\* answer with a document other than the tree's root.
C1_Witness ==
    /\ Searched /\ WellFormed(last.query) /\ Len(inserted) = 3
    /\ ~BoundaryTie(last.list, last.query)
    /\ last.tree = last.list /\ Len(last.tree) = 1
    /\ last.tree[1] # tree.nodes[tree.root].doc

\* C2: a search returns exactly min(k, N) documents from the sequential and the
\* tree index, and min(k, size of the query's bucket) from the hash index.
C2_TopKSize ==
    (Queried /\ WellFormed(last.query))
        => /\ Len(last.list) = Min(last.k, Len(inserted))
           /\ Len(last.tree) = Min(last.k, Len(inserted))
           /\ Len(last.hash) = Min(last.k, BucketSize(last.query))

\* C2 witness: a top-2 search of three documents whose bucket holds one of them.
C2_Witness ==
    /\ TopKed /\ last.k = 2 /\ Len(inserted) = 3
    /\ Len(last.list) = 2 /\ Len(last.tree) = 2 /\ Len(last.hash) = 1

\* The scenario of C3: documents (1,[0,0]), (2,[10,10]), (3,[0,1]), query [0,0].
C3_ScenarioDocs ==
    <<Document(1, <<0, 0>>), Document(2, <<10, 10>>), Document(3, <<0, 1>>)>>
C3_Scenario ==
    /\ DocumentList_searchSimilar(ListOf(C3_ScenarioDocs), <<0, 0>>, 0)
         = <<Document(1, <<0, 0>>)>>
    /\ KdTree_searchSimilar(TreeOf(C3_ScenarioDocs, 2), <<0, 0>>, 0)
         = <<Document(1, <<0, 0>>)>>
    /\ DocumentList_searchTopK(ListOf(C3_ScenarioDocs), <<0, 0>>, 2)
         = <<Document(1, <<0, 0>>), Document(3, <<0, 1>>)>>
    /\ KdTree_searchTopK(TreeOf(C3_ScenarioDocs, 2), <<0, 0>>, 2)
         = <<Document(1, <<0, 0>>), Document(3, <<0, 1>>)>>

\* Nearest first: res holds stored documents in ascending distance, each at
\* least as close to the query as every stored document left out.
NearestFirst(res, q) ==
    /\ Range(res) \subseteq Range(inserted)
    /\ Sorted(res, q)
    /\ \A r \in Range(res) : \A d \in Range(inserted) \ Range(res) :
          Dist(q, r) <= Dist(q, d)

\* C3: the result of the sequential and of the tree search is sorted ascending
\* by distance to the query, and every returned document is at least as close to
\* the query as every stored document that is not returned; the scenario yields
\* ids 1 and 3 in that order.
C3_NearestFirst ==
    /\ (Queried /\ WellFormed(last.query))
          => NearestFirst(last.list, last.query) /\ NearestFirst(last.tree, last.query)
    /\ C3_Scenario

\* C3 witness: a top-2 search of three documents that leaves out a farther one.
C3_Witness ==
    /\ TopKed /\ last.k = 2 /\ Len(inserted) = 3
    /\ Len(last.tree) = 2 /\ Len(last.list) = 2
    /\ Dist(last.query, last.tree[1]) < Dist(last.query, last.tree[2])
    /\ \E d \in Range(inserted) \ Range(last.tree) :
          Dist(last.query, last.tree[2]) < Dist(last.query, d)

\* The indexes as constructed.
AsConstructed ==
    /\ list = <<>>
    /\ tree.root = 0 /\ tree.nodes = <<>>
    /\ DOMAIN lsh.buckets = {}

\* C4: a search on indexes into which nothing was inserted returns no document
\* from any of the three, for every query and every k >= 0, and leaves the
\* indexes as constructed.
C4_EmptyIndex ==
    (Queried /\ WellFormed(last.query) /\ Len(inserted) = 0)
        => /\ last.list = <<>> /\ last.tree = <<>> /\ last.hash = <<>>
           /\ AsConstructed

\* C4 witness: searchSimilar has run on the freshly constructed indexes.
C4_Witness ==
    Searched /\ WellFormed(last.query) /\ Len(inserted) = 0 /\ last.hash = <<>>

\* The stored document that searching for d's own vector designates: the first
\* inserted document with that vector.
FirstWithFeatures(f) ==
    inserted[CHOOSE i \in DOMAIN inserted :
                /\ inserted[i].features = f
                /\ \A j \in DOMAIN inserted : inserted[j].features = f => i <= j]

\* C5 as stated, of the searchSimilar of DataStructures.cpp: a hash search whose
\* query equals a previously inserted document d returns that document d.
C5_ReturnsThatDocument ==
    (Searched /\ WellFormed(last.query))
        => \A d \in Range(inserted) : d.features = last.query => last.hash = <<d>>

\* C5 amended: a hash search (k >= 1) whose query equals a previously inserted
\* document d returns as its first result a stored document at distance 0, the
\* first inserted document with d's vector: d itself unless an earlier document
\* has the same vector.
C5_ReturnsEqualVector ==
    (Queried /\ WellFormed(last.query) /\ last.k >= 1
       /\ \E d \in Range(inserted) : d.features = last.query)
        => /\ Len(last.hash) >= 1
           /\ Dist(last.query, last.hash[1]) = 0
           /\ last.hash[1] = FirstWithFeatures(last.query)

\* C5 witness: the query equals the last of three inserted documents, whose
\* bucket also holds another vector, and the search returns that document.
C5_Witness ==
    /\ Searched /\ Len(inserted) = 3
    /\ inserted[3].features = last.query
    /\ last.hash = <<inserted[3]>>
    /\ BucketSize(last.query) >= 2

\* The scenario of C6: one projection [1,0], bucketWidth 100.
C6_ScenarioHash(ds) == HashOf(ds, << <<1, 0>> >>, 100)
C6_Scenario ==
    LET d5   == Document(1, <<5, 0>>)
        d6   == Document(2, <<6, 0>>)
        d500 == Document(3, <<500, 0>>)
    IN  /\ getHashKey(C6_ScenarioHash(<<>>), <<5, 0>>, 0) = <<0>>
        /\ getHashKey(C6_ScenarioHash(<<>>), <<6, 0>>, 0) = <<0>>
        /\ getHashKey(C6_ScenarioHash(<<>>), <<500, 0>>, 0) = <<5>>
        /\ DocumentHash_searchSimilar(C6_ScenarioHash(<<d6, d500>>), <<5, 0>>, 0) = <<d6>>
        /\ DocumentHash_searchSimilar(C6_ScenarioHash(<<d6, d500>>), <<450, 0>>, 0) = <<>>
        /\ DocumentHash_searchTopK(C6_ScenarioHash(<<d5, d6, d500>>), <<5, 0>>, 2)
             = <<d5, d6>>

\* C6: every document a hash search returns is a stored document whose composite
\* key equals the query's key, and nothing is returned when no bucket has the
\* query's key; in the scenario [5,0] finds [6,0] and never [500,0].
C6_OwnBucketOnly ==
    /\ (Queried /\ WellFormed(last.query))
          => /\ \A d \in Range(last.hash) :
                  /\ d \in Range(inserted)
                  /\ getHashKey(lsh, d.features, 0) = getHashKey(lsh, last.query, 0)
             /\ BucketSize(last.query) = 0 => last.hash = <<>>
    /\ C6_Scenario

\* C6 witness: a hash search returns a document of the query's bucket while a
\* stored document of another bucket is strictly closer to the query.
C6_Witness ==
    /\ Searched /\ WellFormed(last.query) /\ Len(last.hash) = 1
    /\ \E d \in Range(inserted) :
          /\ getHashKey(lsh, d.features, 0) # getHashKey(lsh, last.query, 0)
          /\ Dist(last.query, d) < Dist(last.query, last.hash[1])

\* The documents inserted so far, in the order p.
Reordered(p) == [i \in DOMAIN inserted |-> inserted[p[i]]]

\* A returned document is exactly as far from the query as another stored one.
TieInResult(res, q) ==
    \E r \in Range(res) : \E d \in Range(inserted) \ {r} : Dist(q, r) = Dist(q, d)

\* C7 as stated, of the searchSimilar of DataStructures.cpp: a DocumentList built
\* from the same documents in any other order returns the same result.
C7_SameResultAnyOrder ==
    (Searched /\ WellFormed(last.query))
        => \A p \in Permutations(DOMAIN inserted) :
              DocumentList_searchSimilar(ListOf(Reordered(p)), last.query, 0) = last.list

\* The sequential search of a list built in the order ds, as the last operation ran it.
ListResultFor(ds) ==
    IF Searched THEN DocumentList_searchSimilar(ListOf(ds), last.query, 0)
    ELSE DocumentList_searchTopK(ListOf(ds), last.query, last.k)

\* res and other hold the same distances, and the same documents unless tied.
SameUpToTies(res, other, tied, q) ==
    /\ Dists(other, q) = Dists(res, q)
    /\ ~tied => other = res

\* C7 amended: DocumentLists built from the same documents in two orders return
\* the same distances for every query and k, and the same documents whenever no
\* returned document is exactly as far from the query as another stored document
\* (of documents that tie, the one inserted first comes first).
C7_SameDistancesAnyOrder ==
    (Queried /\ WellFormed(last.query))
        => \A p \in Permutations(DOMAIN inserted) :
              SameUpToTies(last.list,
                           ListResultFor(Reordered(p)),
                           TieInResult(last.list, last.query), last.query)

\* C7 witness: a search of three documents at three different distances, the
\* nearest inserted last.
C7_Witness ==
    /\ Searched /\ WellFormed(last.query) /\ Len(inserted) = 3
    /\ ~TieInResult(last.list, last.query)
    /\ last.list = <<inserted[3]>>
    /\ Dist(last.query, inserted[1]) # Dist(last.query, inserted[2])

\* C8 as stated, of a search: a query whose length differs from the index's
\* dimensionality fails the operation, so no index returns a document for it.
C8_MismatchFailsFast ==
    (Searched /\ ~WellFormed(last.query))
        => last.list = <<>> /\ last.tree = <<>> /\ last.hash = <<>>

\* C9: a search changes none of the three indexes (documents, tree, buckets and
\* projection basis stay as they were).
C9_SearchReadOnly ==
    [][last'.op \in {"search", "topk"} => (list' = list /\ tree' = tree /\ lsh' = lsh)]_vars

\* C9 witness: a hash search on a populated index has found no bucket for its
\* key, and the table still has no such bucket.
C9_Witness ==
    /\ Searched /\ WellFormed(last.query) /\ Len(inserted) = 3
    /\ getHashKey(lsh, last.query, 0) \notin DOMAIN lsh.buckets
    /\ last.hash = <<>>

\* The documents of a sequence, with their multiplicities.
SeqBag(seq) == [x \in Range(seq) |-> Cardinality({i \in DOMAIN seq : seq[i] = x})]

\* The documents of the subtree at node, as the pointers reach them.
RECURSIVE TreeDocs(_, _)
TreeDocs(T, node) ==
    IF node = 0 THEN <<>>
    ELSE TreeDocs(T, T.nodes[node].left) \o <<T.nodes[node].doc>>
           \o TreeDocs(T, T.nodes[node].right)

C10_StoredIsInserted ==
    /\ list = inserted
    /\ SeqBag(TreeDocs(tree, tree.root)) = SeqBag(inserted)
    /\ SeqBag(AllBuckets(lsh.buckets, DOMAIN lsh.buckets)) = SeqBag(inserted)

C10_NothingMoves ==
    /\ SubSeq(list', 1, Len(list)) = list
    /\ tree.root # 0 => tree'.root = tree.root
    /\ \A n \in DOMAIN tree.nodes :
          /\ tree'.nodes[n].doc = tree.nodes[n].doc
          /\ tree.nodes[n].left # 0 => tree'.nodes[n].left = tree.nodes[n].left
          /\ tree.nodes[n].right # 0 => tree'.nodes[n].right = tree.nodes[n].right
    /\ \A key \in DOMAIN lsh.buckets :
          /\ key \in DOMAIN lsh'.buckets
          /\ SubSeq(lsh'.buckets[key], 1, Len(lsh.buckets[key])) = lsh.buckets[key]

\* C10: in each index the multiset of stored documents is the multiset of the
\* documents inserted so far, and no step removes, replaces or moves a stored
\* document: a non-empty tree keeps its root and every node keeps its document
\* and the children it has.
C10_AppendOnly ==
    []C10_StoredIsInserted /\ [][C10_NothingMoves]_vars

\* C10 witness: three documents are stored, one two levels below the root of the
\* tree and two in one bucket.
C10_Witness ==
    /\ last.op = "insert" /\ Len(inserted) = 3
    /\ \E n \in DOMAIN tree.nodes : \E m \in DOMAIN tree.nodes :
          /\ n # tree.root
          /\ m \in {tree.nodes[n].left, tree.nodes[n].right}
    /\ \E key \in DOMAIN lsh.buckets : Len(lsh.buckets[key]) = 2

\* The hash index as constructed with the basis and width of lsh.
FreshHash == HashOf(<<>>, lsh.projections, lsh.bucketWidth)

\* C11 as stated, of the searchSimilar of DataStructures.cpp: on a populated hash
\* index, a search whose bucket has no members returns a result the caller can
\* tell apart from the result of the same search on a hash index into which
\* nothing was ever inserted.
C11_EmptyBucketDistinguishable ==
    (Searched /\ WellFormed(last.query) /\ Len(inserted) > 0
       /\ BucketSize(last.query) = 0)
        => last.hash # DocumentHash_searchSimilar(FreshHash, last.query, 0)

\* The vectors a search has measured: the stored ones and a well-formed query.
MeasuredVectors ==
    {inserted[i].features : i \in DOMAIN inserted}
        \cup (IF Queried /\ WellFormed(last.query) THEN {last.query} ELSE {})

\* C12: for equal-length vectors a and b, euclideanDistance(a,a) is 0,
\* euclideanDistance(a,b) equals euclideanDistance(b,a) and is never negative,
\* and the value depends on a and b alone (nothing outside the two vectors is
\* read, whatever lies past their ends).
C12_DistanceProperties ==
    \A a \in MeasuredVectors : \A b \in MeasuredVectors :
        /\ euclideanDistance(a, a, 0) = 0
        /\ euclideanDistance(a, b, 0) = euclideanDistance(b, a, 0)
        /\ euclideanDistance(a, b, 0) >= 0
        /\ \A g \in GarbageValues :
              euclideanDistance(a, b, g) = euclideanDistance(a, b, 0)

\* C12 witness: a search has measured a query against two stored vectors, all
\* three different, so that positive distances occur in both argument orders.
C12_Witness ==
    /\ Searched /\ WellFormed(last.query) /\ Len(inserted) >= 2
    /\ inserted[1].features # inserted[2].features
    /\ last.query \notin {inserted[1].features, inserted[2].features}
    /\ euclideanDistance(last.query, inserted[1].features, 0) > 0
    /\ euclideanDistance(inserted[1].features, last.query, 0) > 0

\* The subtree at node, whose root is at the given depth, is partitioned: left of
\* every node the values on the node's axis are strictly less than the node's,
\* right of it they are greater or equal.
RECURSIVE PartitionedAt(_, _, _)
PartitionedAt(T, node, depth) ==
    IF node = 0 THEN TRUE
    ELSE LET nd   == T.nodes[node]
             axis == depth % T.k
             v    == nd.doc.features[axis + 1]
         IN  /\ \A d \in Range(TreeDocs(T, nd.left)) : d.features[axis + 1] < v
             /\ \A d \in Range(TreeDocs(T, nd.right)) : d.features[axis + 1] >= v
             /\ PartitionedAt(T, nd.left, depth + 1)
             /\ PartitionedAt(T, nd.right, depth + 1)

C13_Partitioned == PartitionedAt(tree, tree.root, 0)

\* The places of the pointers of T: the root and the child fields of its nodes.
Slots(T) ==
    {RootRef} \cup {ChildRef(n, side) : n \in DOMAIN T.nodes, side \in {"left", "right"}}

\* The first null slot the descent rule of the design reaches for d from ref.
RECURSIVE FirstNullSlot(_, _, _, _)
FirstNullSlot(T, ref, d, depth) ==
    LET node == Deref(T, ref)
    IN  IF node = 0 THEN ref
        ELSE LET axis == depth % T.k
             IN  IF d.features[axis + 1] < T.nodes[node].doc.features[axis + 1]
                 THEN FirstNullSlot(T, ChildRef(node, "left"), d, depth + 1)
                 ELSE FirstNullSlot(T, ChildRef(node, "right"), d, depth + 1)

\* An insert allocates one node, a leaf holding the inserted document, sets the
\* first null slot of the descent to it and changes nothing else of the tree.
C13_OneNewLeaf ==
    last'.op = "insert" =>
        LET d    == inserted'[Len(inserted')]
            new  == Len(tree.nodes) + 1
            slot == FirstNullSlot(tree, RootRef, d, 0)
        IN  /\ Len(tree'.nodes) = new
            /\ tree'.nodes[new] = KdNode(d)
            /\ tree'.k = tree.k
            /\ \A n \in DOMAIN tree.nodes : tree'.nodes[n].doc = tree.nodes[n].doc
            /\ Deref(tree, slot) = 0 /\ Deref(tree', slot) = new
            /\ \A other \in Slots(tree) \ {slot} : Deref(tree', other) = Deref(tree, other)

\* C13: after any sequence of inserts, for every node at depth d with axis
\* a = d mod k, every document of its left subtree has features[a] strictly less
\* than the node's and every document of its right subtree has features[a]
\* greater or equal; and each insert creates exactly one new leaf, at the first
\* null slot reached by the descent rule (strictly less goes left, else right).
C13_PartitionInvariant ==
    []C13_Partitioned /\ [][C13_OneNewLeaf]_vars

\* C13 witness: three documents are in the tree, one two levels below the root,
\* and a document equal to its parent on the parent's axis is its right child.
C13_Witness ==
    /\ last.op = "insert" /\ Len(inserted) = 3
    /\ \E n \in DOMAIN tree.nodes : \E m \in DOMAIN tree.nodes :
          /\ n # tree.root
          /\ m \in {tree.nodes[n].left, tree.nodes[n].right}
    /\ \E n \in DOMAIN tree.nodes :
          /\ tree.nodes[n].right # 0
          /\ \E axis \in 0..(tree.k - 1) :
                tree.nodes[tree.nodes[n].right].doc.features[axis + 1]
                  = tree.nodes[n].doc.features[axis + 1]
    /\ C13_Partitioned

\* The nodes of the subtree at node.
RECURSIVE TreeNodes(_, _)
TreeNodes(T, node) ==
    IF node = 0 THEN {}
    ELSE {node} \cup TreeNodes(T, T.nodes[node].left) \cup TreeNodes(T, T.nodes[node].right)

\* The steps of the last tree search.
LastSearchSteps == KdTree_searchSteps(tree, tree.root, last.query, <<>>, FLT_MAX, 0, 0)

\* The nodes a sequence of steps visits.
Visited(steps) == {steps[i].node : i \in {j \in DOMAIN steps : steps[j].kind = "visit"}}

\* The place of the visit of node n among the steps.
VisitOf(steps, n) == CHOOSE i \in DOMAIN steps : steps[i].kind = "visit" /\ steps[i].node = n

\* Every visited node's near side (left when the query is strictly less than the
\* node on the node's axis, else right) is visited before its far side.
NearBeforeFar(steps, q) ==
    \A i \in DOMAIN steps :
        steps[i].kind = "visit" =>
            LET nd   == tree.nodes[steps[i].node]
                axis == steps[i].depth % tree.k
                less == q[axis + 1] < nd.doc.features[axis + 1]
                near == IF less THEN nd.left ELSE nd.right
                far  == IF less THEN nd.right ELSE nd.left
            IN  \A n \in TreeNodes(tree, near) \cap Visited(steps) :
                \A f \in TreeNodes(tree, far) \cap Visited(steps) :
                    VisitOf(steps, n) < VisitOf(steps, f)

\* Every skip was decided on an axis difference not smaller than the kept
\* distance, and leaves out no document strictly closer than the kept one.
SkipsAreSound(steps, q) ==
    \A i \in DOMAIN steps :
        steps[i].kind = "skip" =>
            /\ steps[i].diff * steps[i].diff >= steps[i].bestDist
            /\ \A d \in Range(TreeDocs(tree, steps[i].node)) :
                  ~(Dist(q, d) < steps[i].bestDist)

\* Every node of the tree is either visited or inside a skipped subtree.
VisitedOrSkipped(steps) ==
    LET skipped == UNION {TreeNodes(tree, steps[i].node) :
                            i \in {j \in DOMAIN steps : steps[j].kind = "skip"}}
    IN  /\ Visited(steps) \cup skipped = TreeNodes(tree, tree.root)
        /\ Visited(steps) \cap skipped = {}

\* What a traversal of the whole tree keeps: the k nearest of all its documents.
FullTraversal(q, kk) ==
    LET all == TreeDocs(tree, tree.root)
    IN  SubSeq(RankByDistance(all, q), 1, Min(kk, Len(all)))

\* C14: in the tree search the near child (the side the query falls on, by the
\* strict-less/else rule of insertion) is searched before the far child; the far
\* child is skipped only when the absolute axis difference is not smaller than
\* the worst kept distance; a skipped subtree holds no document strictly closer
\* to the query than the worst candidate kept at that moment; and the returned
\* distances are those of a traversal of the whole tree.
C14_PruningSound ==
    /\ (Searched /\ WellFormed(last.query))
          => /\ NearBeforeFar(LastSearchSteps, last.query)
             /\ SkipsAreSound(LastSearchSteps, last.query)
             /\ VisitedOrSkipped(LastSearchSteps)
    /\ (Queried /\ WellFormed(last.query))
          => Dists(last.tree, last.query)
               = Dists(FullTraversal(last.query, last.k), last.query)

\* C14 witness: a search of three documents visited two nodes, skipped a far
\* child that holds the third, and returned a document below the root.
C14_Witness ==
    /\ Searched /\ WellFormed(last.query) /\ Len(inserted) = 3
    /\ \E i \in DOMAIN LastSearchSteps :
          LastSearchSteps[i].kind = "skip" /\ LastSearchSteps[i].node # 0
    /\ Cardinality(Visited(LastSearchSteps)) = 2
    /\ Len(last.tree) = 1 /\ last.tree[1] # tree.nodes[tree.root].doc

\* floor(x / w) for a positive width w: the integer n with n*w <= x < (n+1)*w.
FloorOfQuotient(x, w) ==
    LET m == IF x < 0 THEN -x ELSE x
    IN  CHOOSE n \in (-m - 1)..(m + 1) : n * w <= x /\ x < (n + 1) * w

\* The composite key the design gives a vector: one floored quotient per
\* projection vector of the basis.
DesignKey(H, features) ==
    [i \in 1..H.numHashes |->
        FloorOfQuotient(DotProduct(features, H.projections[i], 0, 0), H.bucketWidth)]

\* The places (key, position) at which a document is stored in the table.
PlacesOf(d) ==
    {<<key, i>> \in UNION {{key} \X DOMAIN lsh.buckets[key] : key \in DOMAIN lsh.buckets} :
        lsh.buckets[key][i] = d}

C15_TableInvariant ==
    /\ \A d \in Range(inserted) : Cardinality(PlacesOf(d)) = 1
    /\ \A key \in DOMAIN lsh.buckets :
          /\ Len(lsh.buckets[key]) > 0
          /\ Len(key) = lsh.numHashes
          /\ \A i \in DOMAIN lsh.buckets[key] :
                /\ lsh.buckets[key][i] \in Range(inserted)
                /\ getHashKey(lsh, lsh.buckets[key][i].features, 0) = key
                /\ DesignKey(lsh, lsh.buckets[key][i].features) = key

C15_BasisFixed ==
    /\ lsh'.projections = lsh.projections
    /\ lsh'.bucketWidth = lsh.bucketWidth
    /\ lsh'.numHashes = lsh.numHashes
    /\ \A f \in FeatureVectors(tree.k) : getHashKey(lsh', f, 0) = getHashKey(lsh, f, 0)

\* C15: the projection basis set by the constructor is changed by no later
\* step, so a vector's composite key is the same at every call; after any
\* sequence of inserts every stored document lies in exactly one bucket, the one
\* whose key equals the key of its own features, a tuple of numHashes integers
\* with component i = floor(dot(features, projection_i) / bucketWidth) rounded
\* toward minus infinity; and no bucket of the table is empty.
C15_BucketTable ==
    []C15_TableInvariant /\ [][C15_BasisFixed]_vars

\* C15 witness: a search has run on a table of two hash functions holding three
\* documents in two buckets, one of them under a key with a negative component.
C15_Witness ==
    /\ Searched /\ Len(inserted) = 3 /\ lsh.numHashes = 2
    /\ Cardinality(DOMAIN lsh.buckets) = 2
    /\ \E key \in DOMAIN lsh.buckets : key[1] < 0 /\ Len(lsh.buckets[key]) = 2
    /\ C15_TableInvariant

====
